---- MODULE Spec2Model ----
(***************************************************************************)
(* A model of the transcript converter (skills/export-to-md/convert.py).   *)
(*                                                                         *)
(* Strings are sequences of tokens.  A token is one character ("h", " ",   *)
(* "1"), one glyph written by name (PROMPT, MARK, BOX, ...) or one fixed   *)
(* phrase of the classifier's tables taken as an indivisible unit          *)
(* ("Welcome back", "/rename", "Session renamed to:").  "\n" is the line   *)
(* break.  Lists of strings are sequences of such sequences.               *)
(***************************************************************************)
EXTENDS Naturals, Sequences, FiniteSets

VARIABLES
    pc,               \* position in main / parse_export
    content,          \* the text read from the input file
    noise,            \* how many leading lines of content were prepended as noise
    lines,            \* parse_export: content.split('\n')
    idx,              \* parse_export: index of the next line of the loop
    turns,            \* parse_export: the emitted turns
    current_turn,     \* parse_export: "none" (None), "user" or "claude"
    current_content,  \* parse_export: the current turn's lines
    skip_banner,      \* parse_export: still skipping the CLI banner
    history,          \* the segmenter's state after 0, 1, 2, ... lines
    exit_code,        \* main: the value returned ("none" while running)
    title_asked,      \* main: input("Enter document title: ") was called
    file_written,     \* main: output_path.write_text was called
    assembled,        \* format_markdown: '\n'.join(lines) before the collapse
    markdown,         \* format_markdown: the returned document
    x,                \* the cleaner's input line
    once,             \* clean_line(x)
    twice,            \* clean_line(clean_line(x))
    stdin,            \* the hook: what the harness wrote to standard input
    input_data,       \* the hook's main: json.load(sys.stdin)
    command,          \* the hook's main: extract_command(input_data)
    reason,           \* the hook's main: the reason printed on a block
    warnings,         \* the hook's main: check_warning(command)
    status            \* the hook: the process's exit status

vars == <<pc, content, noise, lines, idx, turns, current_turn, current_content,
          skip_banner, history, exit_code, title_asked, file_written,
          assembled, markdown, x, once, twice,
          stdin, input_data, command, reason, warnings, status>>

parseVars == <<content, noise, lines, idx, turns, current_turn, current_content,
               skip_banner, history>>
mainVars == <<exit_code, title_asked, file_written, assembled, markdown>>
cleanVars == <<x, once, twice>>
hookVars == <<stdin, input_data, command, reason, warnings, status>>

----------------------------------------------------------------------------
(* Glyphs and characters *)

NL == "\n"
SP == " "
ESC == "ESC"          \* \x1b
PROMPT == "PROMPT"    \* the user prompt glyph
MARK == "MARK"        \* the assistant marker glyph
FOOT == "FOOT"        \* the footer glyph
THINK == "THINK"      \* the thinking glyph
ELL == "ELL"          \* the ellipsis glyph
ARROW == "ARROW"      \* the line number arrow
BOX == "BOX"          \* a box-drawing character
BOX2 == "BOX2"        \* another box-drawing character

BOX_CHARS == {BOX, BOX2}
Digits == {"0", "1", "5"}
Whitespace == {SP, NL}

----------------------------------------------------------------------------
(* String helpers: Python's str methods on token sequences *)

RECURSIVE LStrip(_)
LStrip(s) ==
    IF s # <<>> /\ Head(s) \in Whitespace THEN LStrip(Tail(s)) ELSE s

RECURSIVE RStrip(_)
RStrip(s) ==
    IF s # <<>> /\ s[Len(s)] \in Whitespace
    THEN RStrip(SubSeq(s, 1, Len(s) - 1))
    ELSE s

Strip(s) == LStrip(RStrip(s))

Contains(s, tokens) == \E i \in 1..Len(s) : s[i] \in tokens

RECURSIVE Join(_)
Join(ls) ==
    IF ls = <<>> THEN <<>>
    ELSE IF Len(ls) = 1 THEN ls[1]
    ELSE ls[1] \o <<NL>> \o Join(Tail(ls))

\* the characters of s at the indices in keep, in order
Pick(s, keep) ==
    LET indexed == [i \in 1..Len(s) |-> <<i, s[i]>>]
        kept == SelectSeq(indexed, LAMBDA p : p[1] \in keep)
    IN  [k \in 1..Len(kept) |-> kept[k][2]]

\* the index of the first line break at or after start, or 0
NextBreak(s, start) ==
    IF \E j \in start..Len(s) : s[j] = NL
    THEN CHOOSE j \in start..Len(s) :
             s[j] = NL /\ \A k \in start..(j - 1) : s[k] # NL
    ELSE 0

\* text.split('\n'): the pieces between the line breaks
RECURSIVE SplitFrom(_, _)
SplitFrom(s, start) ==
    LET e == NextBreak(s, start)
    IN  IF e = 0 THEN << SubSeq(s, start, Len(s)) >>
        ELSE << SubSeq(s, start, e - 1) >> \o SplitFrom(s, e + 1)

Split(s) == SplitFrom(s, 1)

RECURSIVE Concat(_)
Concat(ls) == IF ls = <<>> THEN <<>> ELSE Head(ls) \o Concat(Tail(ls))

Filter(s, drop) == SelectSeq(s, LAMBDA c : c \notin drop)

\* the index of the first character at or after i that is not in set
SkipWhile(s, i, set) ==
    IF \E j \in i..Len(s) : s[j] \notin set
    THEN CHOOSE j \in i..Len(s) :
             s[j] \notin set /\ \A k \in i..(j - 1) : s[k] \in set
    ELSE Len(s) + 1

----------------------------------------------------------------------------
(* Line Cleaner *)

\* where a match of r'^\s*\d+ARROW' (re.MULTILINE) starting at i ends, or 0
LineNumberEnd(s, i) ==
    IF i = 1 \/ s[i - 1] = NL
    THEN LET d == SkipWhile(s, i, Whitespace)
             a == SkipWhile(s, d, Digits)
         IN  IF a > d /\ a <= Len(s) /\ s[a] = ARROW THEN a + 1 ELSE 0
    ELSE 0

\* re.sub(r'^\s*\d+ARROW', '', text, flags=re.MULTILINE).  A match that
\* starts inside another one starts in its whitespace and ends where it ends.
remove_line_numbers(text) ==
    LET matched == {j \in 1..Len(text) :
                       \E i \in 1..j : LineNumberEnd(text, i) > j}
    IN  Pick(text, (1..Len(text)) \ matched)

remove_box_chars(text) == Filter(text, BOX_CHARS)

\* where a match of r'\x1b\[[0-9;]*[mK]' starting at i ends, or 0
AnsiEnd(s, i) ==
    IF i + 1 <= Len(s) /\ s[i] = ESC /\ s[i + 1] = "["
    THEN LET e == SkipWhile(s, i + 2, Digits \cup {";"})
         IN  IF e <= Len(s) /\ s[e] \in {"m", "K"} THEN e + 1 ELSE 0
    ELSE 0

\* re.sub(r'\x1b\[[0-9;]*[mK]', '', text).  Matches cannot overlap: a match
\* holds one ESC, its first character.
remove_ansi_codes(text) ==
    LET matched == {j \in 1..Len(text) :
                       \E i \in 1..j : AnsiEnd(text, i) > j}
    IN  Pick(text, (1..Len(text)) \ matched)

\* .replace(ELL, '...'), by halves
RECURSIVE ReplaceEllipsis(_)
ReplaceEllipsis(s) ==
    IF s = <<>> THEN <<>>
    ELSE IF Len(s) = 1
    THEN (IF s[1] = ELL THEN <<".", ".", ".">> ELSE s)
    ELSE LET h == Len(s) \div 2
         IN  ReplaceEllipsis(SubSeq(s, 1, h))
             \o ReplaceEllipsis(SubSeq(s, h + 1, Len(s)))

\* line.rstrip() of clean_line
RStripLine(line) == RStrip(line)

clean_line(line) ==
    LET a == remove_ansi_codes(line)
        b == remove_box_chars(a)
        c == ReplaceEllipsis(Filter(b, {MARK, FOOT, THINK}))
    IN  RStripLine(c)

-----
(* Line Classifier.  The phrases of the fixed tables are tokens. *)

banner_indicators ==
    {"Claude Code v", "Welcome back", "Tips for getting", "Run /init",
     "Recent activity", "No recent activity", "API Usage Billing",
     "Organization", "Auth conflict", "Trying to use", "/model to try"}

system_commands ==
    {"/rename", "/help", "/clear", "/exit", "/model", "/logout", "/export"}

system_responses ==
    {"Please provide a name for the session", "Session renamed to:",
     "Exported conversation to:", "Usage: /rename", "Usage: /help"}

TIMING == "Sauteed for "

is_user_prompt(line) ==
    LET stripped == Strip(line)
    IN  stripped # <<>> /\ stripped[1] = PROMPT

is_system_command(line) ==
    LET stripped == Strip(line)
    IN  stripped # <<>> /\ stripped[1] \in system_commands

is_system_response(line) == Contains(Strip(line), system_responses)

is_cli_banner(line) == Contains(line, banner_indicators)

\* re.match(r'.*Sauteed for \d+[ms]', line)
is_timing_line(line) ==
    \E i \in 1..Len(line) :
        /\ line[i] = TIMING
        /\ LET e == SkipWhile(line, i + 1, Digits)
           IN  e > i + 1 /\ e <= Len(line) /\ line[e] \in {"m", "s"}

has_claude_marker(line) == Contains(line, {MARK})

\* prompt_text_of with the \s* lost from the pattern
prompt_text_of_KeepsSpace(cleaned) ==
    LET stripped == Strip(cleaned)
    IN  IF stripped # <<>> /\ stripped[1] = PROMPT
        THEN Tail(stripped)
        ELSE stripped

\* re.sub(r'^PROMPT\s*', '', cleaned.strip())
prompt_text_of(cleaned) ==
    LET stripped == Strip(cleaned)
    IN  IF stripped # <<>> /\ stripped[1] = PROMPT
        THEN LStrip(Tail(stripped))
        ELSE stripped

----------------------------------------------------------------------------
(* Turn Segmenter: parse_export.  st is the loop's state, a record of     *)
(* turns, current_turn, current_content and skip_banner.                  *)

NoTurn == "none"

\* if current_turn and current_content: turns.append({...})
SaveTurn(st) ==
    IF st.current_turn # NoTurn /\ st.current_content # <<>>
    THEN Append(st.turns, [type |-> st.current_turn,
                           content |-> Join(st.current_content)])
    ELSE st.turns

\* SkipCommand with the save of the previous turn lost
SkipCommand_NoSave(st) ==
    [st EXCEPT !.current_turn = NoTurn, !.current_content = <<>>]

\* a prompt whose text is a system command: save the turn, skip the line
SkipCommand(st) ==
    [st EXCEPT !.turns = SaveTurn(st),
               !.current_turn = NoTurn,
               !.current_content = <<>>]

\* StartUser with the seed's emptiness test lost: current_content =
\* [prompt_text]
StartUser_SeedsEmpty(st, prompt_text) ==
    [st EXCEPT !.turns = SaveTurn(st),
               !.current_turn = "user",
               !.current_content = <<prompt_text>>]

StartUser(st, prompt_text) ==
    [st EXCEPT !.turns = SaveTurn(st),
               !.current_turn = "user",
               !.current_content =
                   IF prompt_text # <<>> THEN <<prompt_text>> ELSE <<>>]

\* StartClaude with the seed's blank test lost: current_content = [cleaned]
StartClaude_SeedsBlank(st, cleaned) ==
    [st EXCEPT !.turns = SaveTurn(st),
               !.current_turn = "claude",
               !.current_content = <<cleaned>>]

StartClaude(st, cleaned) ==
    [st EXCEPT !.turns = SaveTurn(st),
               !.current_turn = "claude",
               !.current_content =
                   IF Strip(cleaned) # <<>> THEN <<cleaned>> ELSE <<>>]

\* ContinueTurn replacing the turn's lines by the new one
ContinueTurn_Overwrites(st, cleaned) ==
    [st EXCEPT !.current_content = <<cleaned>>]

ContinueTurn(st, cleaned) ==
    [st EXCEPT !.current_content = Append(st.current_content, cleaned)]

\* ImplicitClaude starting a user turn instead
ImplicitClaude_AsUser(st, cleaned) ==
    [st EXCEPT !.current_turn = "user", !.current_content = <<cleaned>>]

ImplicitClaude(st, cleaned) ==
    [st EXCEPT !.current_turn = "claude", !.current_content = <<cleaned>>]

\* Classify with the prompt test moved before the timing and system-response
\* tests
Classify_PromptFirst(st, is_claude_start, cleaned) ==
    IF is_user_prompt(cleaned) THEN
        IF is_system_command(prompt_text_of(cleaned))
        THEN SkipCommand(st)
        ELSE StartUser(st, prompt_text_of(cleaned))
    ELSE IF is_timing_line(cleaned) THEN st
    ELSE IF is_system_response(cleaned) THEN st
    ELSE IF is_claude_start /\ st.current_turn # "claude"
        THEN StartClaude(st, cleaned)
    ELSE IF is_claude_start /\ st.current_turn = "claude"
        THEN ContinueTurn(st, cleaned)
    ELSE IF st.current_turn = "user" THEN ContinueTurn(st, cleaned)
    ELSE IF st.current_turn = "claude" THEN ContinueTurn(st, cleaned)
    ELSE IF Strip(cleaned) # <<>> THEN ImplicitClaude(st, cleaned)
    ELSE st

\* the loop body below the banner skip
Classify(st, is_claude_start, cleaned) ==
    IF is_timing_line(cleaned) THEN st
    ELSE IF is_system_response(cleaned) THEN st
    ELSE IF is_user_prompt(cleaned) THEN
        IF is_system_command(prompt_text_of(cleaned))
        THEN SkipCommand(st)
        ELSE StartUser(st, prompt_text_of(cleaned))
    ELSE IF is_claude_start /\ st.current_turn # "claude"
        THEN StartClaude(st, cleaned)
    ELSE IF is_claude_start /\ st.current_turn = "claude"
        THEN ContinueTurn(st, cleaned)
    ELSE IF st.current_turn = "user" THEN ContinueTurn(st, cleaned)
    ELSE IF st.current_turn = "claude" THEN ContinueTurn(st, cleaned)
    ELSE IF Strip(cleaned) # <<>> THEN ImplicitClaude(st, cleaned)
    ELSE st

\* SkipsBanner with the prompt test first: a prompt ends the preamble even
\* when it holds a banner phrase
SkipsBanner_PromptFirst(st, cleaned) ==
    /\ st.skip_banner
    /\ ~is_user_prompt(cleaned)

\* the banner skip: TRUE when the line is dropped as preamble
SkipsBanner(st, cleaned) ==
    /\ st.skip_banner
    /\ \/ is_cli_banner(cleaned)
       \/ Strip(cleaned) = <<>>
       \/ ~is_user_prompt(cleaned)

\* ProcessLine with skip_banner = False lost: the preamble is never left
ProcessLine_NeverLeaves(st, line) ==
    LET is_claude_start == has_claude_marker(line)
        cleaned == clean_line(line)
    IN  IF SkipsBanner(st, cleaned) THEN st
        ELSE Classify(st, is_claude_start, cleaned)

\* ProcessLine testing the marker on the cleaned line, where it is gone
ProcessLine_MarkerAfterCleaning(st, line) ==
    LET cleaned == clean_line(line)
        is_claude_start == has_claude_marker(cleaned)
    IN  IF SkipsBanner(st, cleaned) THEN st
        ELSE Classify([st EXCEPT !.skip_banner = FALSE],
                      is_claude_start, cleaned)

\* one iteration of the loop over the lines
ProcessLine(st, line) ==
    LET is_claude_start == has_claude_marker(line)
        cleaned == clean_line(line)
    IN  IF SkipsBanner(st, cleaned) THEN st
        ELSE Classify([st EXCEPT !.skip_banner = FALSE],
                      is_claude_start, cleaned)

InitialState ==
    [turns |-> <<>>, current_turn |-> NoTurn, current_content |-> <<>>,
     skip_banner |-> TRUE]

\* the final save after the loop
FinalTurns(st) == SaveTurn(st)

RECURSIVE ProcessLines(_, _)
ProcessLines(st, ls) ==
    IF ls = <<>> THEN st ELSE ProcessLines(ProcessLine(st, Head(ls)), Tail(ls))

parse_export(text) ==
    FinalTurns(ProcessLines(InitialState, Split(remove_line_numbers(text))))

Segmenter ==
    [turns |-> turns, current_turn |-> current_turn,
     current_content |-> current_content, skip_banner |-> skip_banner]

----------------------------------------------------------------------------
(* Content Normalizer: clean_content *)

Min(S) == CHOOSE m \in S : \A n \in S : m <= n

Indent(line) == Len(line) - Len(LStrip(line))

\* re.match(r'^[-=]{3,}$', stripped)
is_separator(stripped) ==
    Len(stripped) >= 3 /\ \A i \in 1..Len(stripped) : stripped[i] \in {"-", "="}

min_indent_of(ls) ==
    LET non_empty == {i \in 1..Len(ls) : Strip(ls[i]) # <<>>}
    IN  IF non_empty # {} THEN Min({Indent(ls[i]) : i \in non_empty}) ELSE 0

Dedent(line, min_indent) ==
    IF line # <<>> /\ Len(line) >= min_indent
    THEN SubSeq(line, min_indent + 1, Len(line))
    ELSE line

\* one iteration of clean_content's loop; acc is cleaned and prev_was_separator
CleanContentStep(acc, line, min_indent) ==
    LET stripped == Strip(line)
    IN  IF is_separator(stripped)
        THEN IF acc.cleaned # <<>> /\ Strip(acc.cleaned[Len(acc.cleaned)]) # <<>>
             THEN [acc EXCEPT !.prev_was_separator = TRUE]
             ELSE acc
        ELSE IF acc.prev_was_separator /\ stripped = <<>>
        THEN [acc EXCEPT !.prev_was_separator = FALSE]
        ELSE [cleaned |-> Append(acc.cleaned, Dedent(line, min_indent)),
              prev_was_separator |-> FALSE]

RECURSIVE CleanContentLoop(_, _, _)
CleanContentLoop(acc, ls, min_indent) ==
    IF ls = <<>> THEN acc
    ELSE CleanContentLoop(CleanContentStep(acc, Head(ls), min_indent),
                          Tail(ls), min_indent)

clean_content(text) ==
    LET ls == Split(text)
        acc == CleanContentLoop([cleaned |-> <<>>, prev_was_separator |-> FALSE],
                                ls, min_indent_of(ls))
    IN  Join(acc.cleaned)

----------------------------------------------------------------------------
(* collapse_whitespace *)

\* re.sub(r'\n{4,}', '\n\n\n', text): of a run of 4 or more line breaks the
\* first 3 are kept
CollapseNewlines(text) ==
    LET RunStart(j) == CHOOSE i \in 1..j :
                           /\ \A k \in i..j : text[k] = NL
                           /\ i = 1 \/ text[i - 1] # NL
        RunEnd(j) == SkipWhile(text, j, {NL})
        dropped == {j \in 1..Len(text) :
                       /\ text[j] = NL
                       /\ RunEnd(j) - RunStart(j) >= 4
                       /\ j - RunStart(j) >= 3}
    IN  Pick(text, (1..Len(text)) \ dropped)

\* BlankStep keeping one blank line too many: blank_count <= 3
BlankStep_KeepsThree(acc, line) ==
    IF Strip(line) = <<>>
    THEN [cleaned_lines |-> IF acc.blank_count + 1 <= 3
                            THEN Append(acc.cleaned_lines, <<>>)
                            ELSE acc.cleaned_lines,
          blank_count |-> acc.blank_count + 1]
    ELSE [cleaned_lines |-> Append(acc.cleaned_lines, line), blank_count |-> 0]

\* the loop over the lines; acc is cleaned_lines and blank_count
BlankStep(acc, line) ==
    IF Strip(line) = <<>>
    THEN [cleaned_lines |-> IF acc.blank_count + 1 <= 2
                            THEN Append(acc.cleaned_lines, <<>>)
                            ELSE acc.cleaned_lines,
          blank_count |-> acc.blank_count + 1]
    ELSE [cleaned_lines |-> Append(acc.cleaned_lines, line), blank_count |-> 0]

RECURSIVE BlankLoop(_, _)
BlankLoop(acc, ls) ==
    IF ls = <<>> THEN acc ELSE BlankLoop(BlankStep(acc, Head(ls)), Tail(ls))

collapse_whitespace(text) ==
    LET ls == Split(CollapseNewlines(text))
    IN  Join(BlankLoop([cleaned_lines |-> <<>>, blank_count |-> 0], ls).cleaned_lines)

----------------------------------------------------------------------------
(* Markdown Renderer: format_markdown *)

HeaderMax == 80
HeaderKeep == 77

TODAY == "TODAY"      \* datetime.now().strftime('%Y-%m-%d')

FrontMatter(title) ==
    << <<"-", "-", "-">>,
       <<"title: ", "\"">> \o title \o <<"\"">>,
       <<"date: ", TODAY>>,
       <<"tags: [claude-code, conversation]">>,
       <<"-", "-", "-">>,
       <<>> >>

\* TruncateHeader cutting at the limit: header[:80] + '...'
TruncateHeader_CutsAtLimit(header) ==
    IF Len(header) > HeaderMax
    THEN SubSeq(header, 1, HeaderMax) \o <<".", ".", ".">>
    ELSE header

\* header = header[:77] + '...' if len(header) > 80
TruncateHeader(header) ==
    IF Len(header) > HeaderMax
    THEN SubSeq(header, 1, HeaderKeep) \o <<".", ".", ".">>
    ELSE header

HeadingOf(normalized) == TruncateHeader(Strip(Split(normalized)[1]))

RenderUser(normalized) ==
    LET content_lines == Split(normalized)
        remaining == Strip(Join(Tail(content_lines)))
    IN  << <<"#", SP>> \o HeadingOf(normalized) >>
        \o (IF Len(content_lines) > 1 /\ remaining # <<>>
            THEN << <<>>, remaining >>
            ELSE <<>>)

ClaudeHeading == <<"#", "#", SP, "Claude">>

RenderClaude(normalized) == << <<>>, ClaudeHeading, <<>>, normalized >>

\* a turn is skipped when its stripped content is empty
SkipsTurn(turn) == Strip(turn.content) = <<>>

\* what one iteration of the loop over the turns appends to lines
RenderTurn(turn) ==
    IF SkipsTurn(turn) THEN <<>>
    ELSE LET normalized == clean_content(Strip(turn.content))
         IN  (IF turn.type = "user" THEN RenderUser(normalized)
              ELSE RenderClaude(normalized))
             \o << <<>> >>

RECURSIVE RenderTurns(_)
RenderTurns(ts) ==
    IF ts = <<>> THEN <<>> ELSE RenderTurn(Head(ts)) \o RenderTurns(Tail(ts))

\* result = '\n'.join(lines)
Assemble(ts, title) == Join(FrontMatter(title) \o RenderTurns(ts))

format_markdown(ts, title) == collapse_whitespace(Assemble(ts, title))

----------------------------------------------------------------------------
(* Inputs *)

MaxLines == 3         \* lines of a segmentation input after its opening
MaxChunks == 3        \* chunks of a rendering input after its opening
MaxLen == 4           \* characters of a cleaner input
BlankRun == 4         \* blank lines of the long blank run
MaxOver == 20         \* characters of a prompt past the header limit
MaxNoise == 2         \* noise lines prepended to an input

SeqsUpTo(S, n) == UNION {[1..k -> S] : k \in 0..n}

Repeat(c, n) == [i \in 1..n |-> c]

\* raw transcript lines
L_blank == <<>>
L_banner == <<"Welcome back">>
L_prompt == <<PROMPT, SP, "h">>
L_bare == <<PROMPT>>
L_cmd == <<PROMPT, SP, "/rename", SP, "f">>
L_cmd_resp == <<PROMPT, SP, "/rename", SP, "Session renamed to:">>
L_mark == <<MARK>>
L_mark_text == <<MARK, SP, "a">>
L_text == <<SP, SP, "b">>
L_numbered == <<SP, "1", ARROW, PROMPT, SP, "n">>
L_banner_box == <<BOX, SP, "Welcome back", SP, BOX2>>
L_banner_prompt == <<PROMPT, SP, "Tips for getting">>
L_prompt_sep == <<PROMPT, SP, "-", "-", "-">>
L_mark_sep == <<MARK, SP, "=", "=", "=">>
L_long(n) == <<PROMPT, SP>> \o Repeat("x", n)

\* an input opens with nothing or with a first prompt, which ends the preamble
Openings == {<<>>, <<L_prompt>>}

SegLines ==
    {L_blank, L_banner, L_prompt, L_bare, L_cmd, L_cmd_resp, L_mark,
     L_mark_text, L_numbered}

SegContents ==
    {Join(o \o ls) : o \in Openings, ls \in SeqsUpTo(SegLines, MaxLines)}

\* timing and system-response lines, alone, behind a prompt glyph and behind
\* the assistant marker
L_timing == <<TIMING, "1", "5", "s">>
L_prompt_timing == <<PROMPT, SP, TIMING, "5", "m">>
L_mark_timing == <<MARK, SP, TIMING, "1", "s">>
L_resp == <<"Session renamed to:", SP, "f">>
L_mark_resp == <<MARK, SP, "Usage: /rename">>

DiscardLines ==
    {L_prompt, L_cmd, L_mark_text, L_text, L_timing, L_prompt_timing,
     L_mark_timing, L_resp, L_cmd_resp, L_mark_resp}

DiscardContents ==
    {Join(o \o ls) : o \in Openings, ls \in SeqsUpTo(DiscardLines, MaxLines)}

\* lines before, at and after the first prompt
SkipLines ==
    {L_blank, L_banner_prompt, L_mark_text, L_text, L_prompt, L_bare, L_cmd,
     L_cmd_resp}

SkipContents == {Join(ls) : ls \in SeqsUpTo(SkipLines, MaxLines) \ {<<>>}}

\* a turn with a separator line inside: a prompt, or a prompt and the first
\* line of a reply, then separator, blank and text lines; and an export
\* that opens with a separator line, which holds no turn
L_sep == <<"=", "=", "=">>
L_word == <<"c">>

SeparatorLines == {L_sep, L_blank, L_word, L_text}

SeparatorContents ==
    {Join(o \o ls) :
        o \in {<<L_prompt>>, <<L_prompt, L_mark_text>>, <<L_sep>>},
        ls \in SeqsUpTo(SeparatorLines, MaxChunks)}

\* "Claude Code v1.0\nWelcome back\nPROMPT hello\nMARK hi there\n"
E2EInput ==
    Join(<< <<"Claude Code v", "1", ".", "0">>,
            <<"Welcome back">>,
            <<PROMPT, SP, "h", "e", "l", "l", "o">>,
            <<MARK, SP, "h", "i", SP, "t", "h", "e", "r", "e">>,
            <<>> >>)

RenderChunks ==
    { <<L_prompt>>, <<L_prompt_sep>>, <<L_mark_text>>, <<L_mark_sep>>,
      <<L_text>>, <<L_blank>>, Repeat(L_blank, BlankRun) }

RenderContents ==
    {Join(o \o Concat(cs)) :
        o \in Openings, cs \in SeqsUpTo(RenderChunks, MaxChunks)}
    \cup {E2EInput}

\* a prompt of every length up to MaxOver characters past the header limit,
\* alone or followed by one more line
HeaderContents ==
    {Join(<<L_long(n)>> \o rest) :
        n \in 0..(HeaderMax + MaxOver),
        rest \in SeqsUpTo({L_blank, L_text, L_mark_text}, 1)}

\* lines of pure banner noise: blank, or matching a banner phrase
NoiseLines == {L_blank, L_banner_box, L_banner_prompt}

BodyLines == {L_blank, L_banner, L_prompt, L_mark_text, L_numbered}

Bodies == {Join(ls) : ls \in SeqsUpTo(BodyLines, MaxLines)}

CleanAlphabet == {ESC, "[", "1", ";", "m", BOX, MARK, ELL, SP, "a"}

CleanInputs == SeqsUpTo(CleanAlphabet, MaxLen)

TitleArgs == {<<>>, <<"T">>}          \* args.title: None or given
TypedTitles == {<<>>, <<"U">>}        \* the answer to the title prompt

DefaultTitle == <<"Claude Conversation - ", TODAY>>

----------------------------------------------------------------------------
(* The command gate: regular expressions as re.search reads them *)

UpperCase == <<"A", "B", "C", "D", "E", "F", "G", "H", "I", "J", "K", "L", "M",
               "N", "O", "P", "Q", "R", "S", "T", "U", "V", "W", "X", "Y", "Z">>
LowerCase == <<"a", "b", "c", "d", "e", "f", "g", "h", "i", "j", "k", "l", "m",
               "n", "o", "p", "q", "r", "s", "t", "u", "v", "w", "x", "y", "z">>
Letters == {LowerCase[k] : k \in DOMAIN LowerCase}
\* the characters \s matches (\v has no notation here)
SpaceChars == {" ", "\t", "\n", "\r", "\f"}

\* re.IGNORECASE: both sides are compared in lower case
Lower(c) ==
    IF \E k \in DOMAIN UpperCase : UpperCase[k] = c
    THEN LowerCase[CHOOSE k \in DOMAIN UpperCase : UpperCase[k] = c]
    ELSE c

\* the nodes of a compiled pattern
Lit(c) == [k |-> "lit", c |-> c]
Class(set) == [k |-> "class", set |-> set]
Space == [k |-> "space"]
AnyChar == [k |-> "any"]
AtEnd == [k |-> "end"]
Empty == [k |-> "empty"]
Then(rs) == [k |-> "then", rs |-> rs]
Either(rs) == [k |-> "either", rs |-> rs]
Many(r) == [k |-> "many", r |-> r]
Maybe(r) == [k |-> "maybe", r |-> r]
NotNext(r) == [k |-> "notnext", r |-> r]
Some(r) == Then(<<r, Many(r)>>)
Word(cs) == Then([k \in DOMAIN cs |-> Lit(cs[k])])

RECURSIVE Ends(_, _, _)
RECURSIVE EndsThen(_, _, _, _)
RECURSIVE EndsMany(_, _, _, _)

\* a sequence of nodes from node n on, started at any position of from
EndsThen(rs, n, s, from) ==
    IF n > Len(rs) \/ from = {}
    THEN from
    ELSE EndsThen(rs, n + 1, s, UNION {Ends(rs[n], s, i) : i \in from})

\* zero or more repetitions: the positions reachable from seen
EndsMany(r, s, seen, frontier) ==
    LET new == UNION {Ends(r, s, i) : i \in frontier} \ seen
    IN  IF new = {} THEN seen ELSE EndsMany(r, s, seen \cup new, new)

\* the positions just after a match of r that starts at position i of s
Ends(r, s, i) ==
    CASE r.k = "lit" ->
           IF i <= Len(s) /\ Lower(s[i]) = Lower(r.c) THEN {i + 1} ELSE {}
      [] r.k = "class" ->
           IF i <= Len(s) /\ \E c \in r.set : Lower(c) = Lower(s[i])
           THEN {i + 1} ELSE {}
      [] r.k = "space" ->
           IF i <= Len(s) /\ s[i] \in SpaceChars THEN {i + 1} ELSE {}
      [] r.k = "any" ->
           IF i <= Len(s) /\ s[i] # "\n" THEN {i + 1} ELSE {}
      [] r.k = "end" ->
           IF i = Len(s) + 1 \/ (i = Len(s) /\ s[i] = "\n") THEN {i} ELSE {}
      [] r.k = "empty" -> {i}
      [] r.k = "then" -> EndsThen(r.rs, 1, s, {i})
      [] r.k = "either" -> UNION {Ends(r.rs[n], s, i) : n \in DOMAIN r.rs}
      [] r.k = "many" -> EndsMany(r.r, s, {i}, {i})
      [] r.k = "maybe" -> {i} \cup Ends(r.r, s, i)
      [] r.k = "notnext" -> IF Ends(r.r, s, i) = {} THEN {i} ELSE {}

\* re.search(pattern, s, re.IGNORECASE) finds a match
Search(r, s) == \E i \in 1..(Len(s) + 1) : Ends(r, s, i) # {}

\* BLOCKED_PATTERNS, each with its source text and its compiled form
BLOCKED_PATTERNS ==
    << [src |-> "rm\\s+(-[rfRF]+\\s+)*[/~](\\s|$)",
        re |-> Then(<<Word(<<"r", "m">>), Some(Space),
               Many(Then(<<Lit("-"), Some(Class({"r", "f", "R", "F"})),
               Some(Space)>>)), Class({"/", "~"}), Either(<<Space,
               AtEnd>>)>>)],
       [src |-> "rm\\s+(-[rfRF]+\\s+)*/\\*",
        re |-> Then(<<Word(<<"r", "m">>), Some(Space),
               Many(Then(<<Lit("-"), Some(Class({"r", "f", "R", "F"})),
               Some(Space)>>)), Word(<<"/", "*">>)>>)],
       [src |-> "rm\\s+(-[rfRF]+\\s+)*\\.\\.",
        re |-> Then(<<Word(<<"r", "m">>), Some(Space),
               Many(Then(<<Lit("-"), Some(Class({"r", "f", "R", "F"})),
               Some(Space)>>)), Word(<<".", ".">>)>>)],
       [src |-> "rm\\s+(-[rfRF]+\\s+)*--no-preserve-root",
        re |-> Then(<<Word(<<"r", "m">>), Some(Space),
               Many(Then(<<Lit("-"), Some(Class({"r", "f", "R", "F"})),
               Some(Space)>>)), Word(<<"-", "-", "n", "o", "-", "p", "r",
               "e", "s", "e", "r", "v", "e", "-", "r", "o", "o", "t">>)>>)],
       [src |-> ">\\s*/dev/sd[a-z]",
        re |-> Then(<<Lit(">"), Many(Space), Word(<<"/", "d", "e", "v",
               "/", "s", "d">>), Class(Letters)>>)],
       [src |-> "dd\\s+.*of=/dev/sd[a-z]",
        re |-> Then(<<Word(<<"d", "d">>), Some(Space), Many(AnyChar),
               Word(<<"o", "f", "=", "/", "d", "e", "v", "/", "s", "d">>),
               Class(Letters)>>)],
       [src |-> "mkfs\\.",
        re |-> Word(<<"m", "k", "f", "s", ".">>)],
       [src |-> ":()\\s*{\\s*:\\|\\:&\\s*}\\s*;",
        re |-> Then(<<Lit(":"), Empty, Many(Space), Lit("{"), Many(Space),
               Word(<<":", "|", ":", "&">>), Many(Space), Lit("}"),
               Many(Space), Lit(";")>>)],
       [src |-> "chmod\\s+(-[rR]+\\s+)*[0-7]*00\\s+/",
        re |-> Then(<<Word(<<"c", "h", "m", "o", "d">>), Some(Space),
               Many(Then(<<Lit("-"), Some(Class({"r", "R"})),
               Some(Space)>>)), Many(Class({"0", "1", "2", "3", "4", "5",
               "6", "7"})), Word(<<"0", "0">>), Some(Space), Lit("/")>>)],
       [src |-> "chown\\s+(-[rR]+\\s+)*.*\\s+/(\\s|$)",
        re |-> Then(<<Word(<<"c", "h", "o", "w", "n">>), Some(Space),
               Many(Then(<<Lit("-"), Some(Class({"r", "R"})),
               Some(Space)>>)), Many(AnyChar), Some(Space), Lit("/"),
               Either(<<Space, AtEnd>>)>>)],
       [src |-> "mv\\s+/\\s",
        re |-> Then(<<Word(<<"m", "v">>), Some(Space), Lit("/"), Space>>)],
       [src |-> "curl.*\\|\\s*(ba)?sh",
        re |-> Then(<<Word(<<"c", "u", "r", "l">>), Many(AnyChar),
               Lit("|"), Many(Space), Maybe(Word(<<"b", "a">>)),
               Word(<<"s", "h">>)>>)],
       [src |-> "wget.*\\|\\s*(ba)?sh",
        re |-> Then(<<Word(<<"w", "g", "e", "t">>), Many(AnyChar),
               Lit("|"), Many(Space), Maybe(Word(<<"b", "a">>)),
               Word(<<"s", "h">>)>>)],
       [src |-> "curl.*-o\\s*/",
        re |-> Then(<<Word(<<"c", "u", "r", "l">>), Many(AnyChar),
               Word(<<"-", "o">>), Many(Space), Lit("/")>>)],
       [src |-> "cat.*/etc/shadow",
        re |-> Then(<<Word(<<"c", "a", "t">>), Many(AnyChar), Word(<<"/",
               "e", "t", "c", "/", "s", "h", "a", "d", "o", "w">>)>>)],
       [src |-> "cat.*\\.ssh/id_",
        re |-> Then(<<Word(<<"c", "a", "t">>), Many(AnyChar), Word(<<".",
               "s", "s", "h", "/", "i", "d", "_">>)>>)],
       [src |-> "cat.*\\.aws/credentials",
        re |-> Then(<<Word(<<"c", "a", "t">>), Many(AnyChar), Word(<<".",
               "a", "w", "s", "/", "c", "r", "e", "d", "e", "n", "t", "i",
               "a", "l", "s">>)>>)],
       [src |-> "cat.*\\.env(?:\\s|$|/)",
        re |-> Then(<<Word(<<"c", "a", "t">>), Many(AnyChar), Word(<<".",
               "e", "n", "v">>), Either(<<Space, AtEnd, Lit("/")>>)>>)],
       [src |-> ">\\s*~/\\..*_history",
        re |-> Then(<<Lit(">"), Many(Space), Word(<<"~", "/", ".">>),
               Many(AnyChar), Word(<<"_", "h", "i", "s", "t", "o", "r",
               "y">>)>>)],
       [src |-> "rm.*\\.bash_history",
        re |-> Then(<<Word(<<"r", "m">>), Many(AnyChar), Word(<<".", "b",
               "a", "s", "h", "_", "h", "i", "s", "t", "o", "r", "y">>)>>)],
       [src |-> "rm.*\\.zsh_history",
        re |-> Then(<<Word(<<"r", "m">>), Many(AnyChar), Word(<<".", "z",
               "s", "h", "_", "h", "i", "s", "t", "o", "r", "y">>)>>)],
       [src |-> "nmap\\s+-",
        re |-> Then(<<Word(<<"n", "m", "a", "p">>), Some(Space),
               Lit("-")>>)],
       [src |-> "hydra\\s+",
        re |-> Then(<<Word(<<"h", "y", "d", "r", "a">>), Some(Space)>>)],
       [src |-> "sqlmap\\s+",
        re |-> Then(<<Word(<<"s", "q", "l", "m", "a", "p">>),
               Some(Space)>>)],
       [src |-> "git\\s+push.*--force.*main",
        re |-> Then(<<Word(<<"g", "i", "t">>), Some(Space), Word(<<"p",
               "u", "s", "h">>), Many(AnyChar), Word(<<"-", "-", "f", "o",
               "r", "c", "e">>), Many(AnyChar), Word(<<"m", "a", "i",
               "n">>)>>)],
       [src |-> "git\\s+push.*--force.*master",
        re |-> Then(<<Word(<<"g", "i", "t">>), Some(Space), Word(<<"p",
               "u", "s", "h">>), Many(AnyChar), Word(<<"-", "-", "f", "o",
               "r", "c", "e">>), Many(AnyChar), Word(<<"m", "a", "s", "t",
               "e", "r">>)>>)],
       [src |-> "git\\s+reset\\s+--hard\\s+HEAD~[0-9]+",
        re |-> Then(<<Word(<<"g", "i", "t">>), Some(Space), Word(<<"r",
               "e", "s", "e", "t">>), Some(Space), Word(<<"-", "-", "h",
               "a", "r", "d">>), Some(Space), Word(<<"H", "E", "A", "D",
               "~">>), Some(Class({"0", "1", "2", "3", "4", "5", "6", "7",
               "8", "9"}))>>)],
       [src |-> "git\\s+clean\\s+-[dDfFxX]+",
        re |-> Then(<<Word(<<"g", "i", "t">>), Some(Space), Word(<<"c",
               "l", "e", "a", "n">>), Some(Space), Lit("-"),
               Some(Class({"d", "D", "f", "F", "x", "X"}))>>)],
       [src |-> "terraform\\s+apply",
        re |-> Then(<<Word(<<"t", "e", "r", "r", "a", "f", "o", "r",
               "m">>), Some(Space), Word(<<"a", "p", "p", "l", "y">>)>>)],
       [src |-> "terraform\\s+destroy",
        re |-> Then(<<Word(<<"t", "e", "r", "r", "a", "f", "o", "r",
               "m">>), Some(Space), Word(<<"d", "e", "s", "t", "r", "o",
               "y">>)>>)] >>

\* WARNING_PATTERNS
WARNING_PATTERNS ==
    << [src |-> "rm\\s+-[rfRF]+",
        re |-> Then(<<Word(<<"r", "m">>), Some(Space), Lit("-"),
               Some(Class({"r", "f", "R", "F"}))>>)],
       [src |-> "chmod\\s+777",
        re |-> Then(<<Word(<<"c", "h", "m", "o", "d">>), Some(Space),
               Word(<<"7", "7", "7">>)>>)],
       [src |-> "sudo\\s+",
        re |-> Then(<<Word(<<"s", "u", "d", "o">>), Some(Space)>>)],
       [src |-> "su\\s+-",
        re |-> Then(<<Word(<<"s", "u">>), Some(Space), Lit("-")>>)],
       [src |-> ">\\s*/etc/",
        re |-> Then(<<Lit(">"), Many(Space), Word(<<"/", "e", "t", "c",
               "/">>)>>)],
       [src |-> "pip\\s+install\\s+(?!-e\\s)",
        re |-> Then(<<Word(<<"p", "i", "p">>), Some(Space), Word(<<"i",
               "n", "s", "t", "a", "l", "l">>), Some(Space),
               NotNext(Then(<<Word(<<"-", "e">>), Space>>))>>)],
       [src |-> "npm\\s+install\\s+-g",
        re |-> Then(<<Word(<<"n", "p", "m">>), Some(Space), Word(<<"i",
               "n", "s", "t", "a", "l", "l">>), Some(Space), Word(<<"-",
               "g">>)>>)],
       [src |-> "brew\\s+install",
        re |-> Then(<<Word(<<"b", "r", "e", "w">>), Some(Space),
               Word(<<"i", "n", "s", "t", "a", "l", "l">>)>>)] >>

\* a JSON value as json.load returns it
None == [t |-> "null"]
JStr(v) == [t |-> "str", v |-> v]
JNum(n) == [t |-> "num", v |-> n]
JBool(b) == [t |-> "bool", v |-> b]
JList(v) == [t |-> "list", v |-> v]
JObj(v) == [t |-> "obj", v |-> v]
\* standard input that is not JSON, and standard input holding a value
NotJson == [json |-> FALSE]
Json(v) == [json |-> TRUE, value |-> v]

\* bool(v)
Truthy(v) ==
    CASE v.t = "null" -> FALSE
      [] v.t = "str" -> v.v # <<>>
      [] v.t = "num" -> v.v # 0
      [] v.t = "bool" -> v.v
      [] v.t = "list" -> v.v # <<>>
      [] v.t = "obj" -> DOMAIN v.v # {}

\* d.get(key, default) of a dict
Get(d, key, default) == IF key \in DOMAIN d.v THEN d.v[key] ELSE default

\* extract_command: a missing .get raises AttributeError, which gives None
extract_command(hook_input) ==
    IF hook_input.t # "obj"
    THEN None
    ELSE LET tool_input == Get(hook_input, "tool_input", JObj(<<>>))
         IN  IF tool_input.t # "obj"
             THEN None
             ELSE Get(tool_input, "command", None)

BlockedPrefix == "BLOCKED: Command matches dangerous pattern: "
WarningPrefix == "WARNING: Command matches suspicious patterns: "

RECURSIVE BlockedFrom(_, _)
\* the loop of check_dangerous from pattern n on
BlockedFrom(cmd, n) ==
    IF n > Len(BLOCKED_PATTERNS)
    THEN [is_blocked |-> FALSE, reason |-> <<>>]
    ELSE IF Search(BLOCKED_PATTERNS[n].re, cmd)
         THEN [is_blocked |-> TRUE,
               reason |-> <<BlockedPrefix, BLOCKED_PATTERNS[n].src>>]
         ELSE BlockedFrom(cmd, n + 1)

check_dangerous(cmd) == BlockedFrom(cmd, 1)

RECURSIVE CommaJoin(_)
\* ', '.join(items)
CommaJoin(items) ==
    IF items = <<>> THEN <<>>
    ELSE IF Len(items) = 1 THEN items
    ELSE <<Head(items), ", ">> \o CommaJoin(Tail(items))

RECURSIVE WarningsFrom(_, _)
\* the loop of check_warning from pattern n on
WarningsFrom(cmd, n) ==
    IF n > Len(WARNING_PATTERNS)
    THEN <<>>
    ELSE (IF Search(WARNING_PATTERNS[n].re, cmd)
          THEN <<WARNING_PATTERNS[n].src>> ELSE <<>>)
         \o WarningsFrom(cmd, n + 1)

check_warning(cmd) ==
    LET found == WarningsFrom(cmd, 1)
    IN  IF found # <<>>
        THEN [should_warn |-> TRUE,
              reason |-> <<WarningPrefix>> \o CommaJoin(found)]
        ELSE [should_warn |-> FALSE, reason |-> <<>>]

\* the hook's variables while the converter runs
HookIdle ==
    /\ stdin = NotJson
    /\ input_data = None
    /\ command = None
    /\ reason = <<>>
    /\ warnings = <<>>
    /\ status = <<>>

----------------------------------------------------------------------------

(* Actions *)

InitOver(contents) ==
    /\ pc = "start"
    /\ content \in contents
    /\ noise = 0
    /\ lines = <<>>
    /\ idx = 1
    /\ turns = <<>>
    /\ current_turn = NoTurn
    /\ current_content = <<>>
    /\ skip_banner = TRUE
    /\ history = <<InitialState>>
    /\ exit_code = <<>>
    /\ title_asked = FALSE
    /\ file_written = FALSE
    /\ assembled = <<>>
    /\ markdown = <<>>
    /\ x = <<>>
    /\ once = <<>>
    /\ twice = <<>>
    /\ HookIdle

\* parse_export up to the loop
ParseBegin ==
    /\ pc = "start"
    /\ lines' = Split(remove_line_numbers(content))
    /\ idx' = 1
    /\ turns' = InitialState.turns
    /\ current_turn' = InitialState.current_turn
    /\ current_content' = InitialState.current_content
    /\ skip_banner' = InitialState.skip_banner
    /\ history' = <<InitialState>>
    /\ pc' = "loop"
    /\ UNCHANGED <<content, noise, mainVars, cleanVars, hookVars>>

\* ParseLine with the prompt that ends the preamble read again by the next
\* iteration instead of being processed in the same one
ParseLine_RereadsPrompt ==
    /\ pc = "loop"
    /\ idx <= Len(lines)
    /\ LET ends == /\ skip_banner
                   /\ ~SkipsBanner(Segmenter, clean_line(lines[idx]))
           st == IF ends THEN [Segmenter EXCEPT !.skip_banner = FALSE]
                 ELSE ProcessLine(Segmenter, lines[idx])
       IN  /\ turns' = st.turns
           /\ current_turn' = st.current_turn
           /\ current_content' = st.current_content
           /\ skip_banner' = st.skip_banner
           /\ history' = IF ends THEN history ELSE Append(history, st)
           /\ idx' = IF ends THEN idx ELSE idx + 1
    /\ UNCHANGED <<pc, content, noise, lines, mainVars, cleanVars, hookVars>>

\* one iteration of parse_export's loop
ParseLine ==
    /\ pc = "loop"
    /\ idx <= Len(lines)
    /\ LET st == ProcessLine(Segmenter, lines[idx])
       IN  /\ turns' = st.turns
           /\ current_turn' = st.current_turn
           /\ current_content' = st.current_content
           /\ skip_banner' = st.skip_banner
           /\ history' = Append(history, st)
    /\ idx' = idx + 1
    /\ UNCHANGED <<pc, content, noise, lines, mainVars, cleanVars, hookVars>>

\* the end of the loop: save the last turn and return
ParseEnd ==
    /\ pc = "loop"
    /\ idx > Len(lines)
    /\ turns' = FinalTurns(Segmenter)
    /\ pc' = "parsed"
    /\ UNCHANGED <<content, noise, lines, idx, current_turn, current_content,
                   skip_banner, history, mainVars, cleanVars, hookVars>>

\* MainEmpty with the return lost: main goes on to write the document
MainEmpty_FallsThrough ==
    /\ pc = "parsed"
    /\ turns = <<>>
    /\ title_asked' = TRUE
    /\ assembled' = Assemble(turns, DefaultTitle)
    /\ markdown' = format_markdown(turns, DefaultTitle)
    /\ file_written' = TRUE
    /\ exit_code' = <<0>>
    /\ pc' = "exit"
    /\ UNCHANGED <<parseVars, cleanVars, hookVars>>

\* main: no turns
MainEmpty ==
    /\ pc = "parsed"
    /\ turns = <<>>
    /\ exit_code' = <<1>>
    /\ pc' = "exit"
    /\ UNCHANGED <<parseVars, title_asked, file_written, assembled, markdown,
                   cleanVars, hookVars>>

\* main: the title, format_markdown and the write
MainConvert ==
    /\ pc = "parsed"
    /\ turns # <<>>
    /\ \E args_title \in TitleArgs, typed \in TypedTitles :
        LET title == IF args_title # <<>> THEN args_title
                     ELSE IF Strip(typed) # <<>> THEN Strip(typed)
                     ELSE DefaultTitle
        IN  /\ title_asked' = (args_title = <<>>)
            /\ assembled' = Assemble(turns, title)
            /\ markdown' = format_markdown(turns, title)
    /\ file_written' = TRUE
    /\ exit_code' = <<0>>
    /\ pc' = "exit"
    /\ UNCHANGED <<parseVars, cleanVars, hookVars>>

Init == InitOver(SegContents)

InitRender == InitOver(RenderContents)

Next == ParseBegin \/ ParseLine \/ ParseEnd \/ MainEmpty \/ MainConvert

Spec == Init /\ [][Next]_vars

SpecRender == InitRender /\ [][Next]_vars

InitDiscard == InitOver(DiscardContents)

SpecDiscard == InitDiscard /\ [][Next]_vars

InitSkip == InitOver(SkipContents)

SpecSkip == InitSkip /\ [][Next]_vars

InitSeparator == InitOver(SeparatorContents)

SpecSeparator == InitSeparator /\ [][Next]_vars

\* the control flow of parse_export: the statements before the loop, one
\* iteration of the for loop, the statements after it
ParseControl ==
    \/ pc = "start" /\ pc' = "loop" /\ idx' = 1
    \/ pc = "loop" /\ idx <= Len(lines) /\ pc' = "loop" /\ idx' = idx + 1
    \/ pc = "loop" /\ idx > Len(lines) /\ pc' = "parsed" /\ idx' = idx

\* parse_export keeps running: its next statement is executed
SpecTerminates ==
    /\ InitSkip
    /\ [][Next]_vars
    /\ WF_<<pc, idx>>(ParseControl)

\* an input with noise lines prepended
InitPreamble ==
    /\ pc = "start"
    /\ noise \in 0..MaxNoise
    /\ \E prefix \in [1..noise -> NoiseLines], body \in Bodies :
           content = Join(prefix \o <<body>>)
    /\ lines = <<>>
    /\ idx = 1
    /\ turns = <<>>
    /\ current_turn = NoTurn
    /\ current_content = <<>>
    /\ skip_banner = TRUE
    /\ history = <<InitialState>>
    /\ exit_code = <<>>
    /\ title_asked = FALSE
    /\ file_written = FALSE
    /\ assembled = <<>>
    /\ markdown = <<>>
    /\ x = <<>>
    /\ once = <<>>
    /\ twice = <<>>
    /\ HookIdle

SpecPreamble == InitPreamble /\ [][Next]_vars

InitHeader == InitOver(HeaderContents)

SpecHeader == InitHeader /\ [][Next]_vars

\* the cleaner alone, applied twice
InitClean ==
    /\ pc = "clean"
    /\ x \in CleanInputs
    /\ once = <<>>
    /\ twice = <<>>
    /\ content = <<>>
    /\ noise = 0
    /\ lines = <<>>
    /\ idx = 1
    /\ turns = <<>>
    /\ current_turn = NoTurn
    /\ current_content = <<>>
    /\ skip_banner = TRUE
    /\ history = <<InitialState>>
    /\ exit_code = <<>>
    /\ title_asked = FALSE
    /\ file_written = FALSE
    /\ assembled = <<>>
    /\ markdown = <<>>
    /\ HookIdle

CleanOnce ==
    /\ pc = "clean"
    /\ once' = clean_line(x)
    /\ pc' = "cleaned"
    /\ UNCHANGED <<x, twice, parseVars, mainVars, hookVars>>

CleanTwice ==
    /\ pc = "cleaned"
    /\ twice' = clean_line(once)
    /\ pc' = "recleaned"
    /\ UNCHANGED <<x, once, parseVars, mainVars, hookVars>>

NextClean == CleanOnce \/ CleanTwice

SpecClean == InitClean /\ [][NextClean]_vars

----------------------------------------------------------------------------
(* The command gate: its inputs and its steps *)

MaxWords == 3         \* words of a command put together from HookWords

\* one command for each blocked pattern, in the order of the list
BlockedExamples ==
    << <<"r", "m", " ", "-", "r", "f", " ", "/">>,
       <<"r", "m", " ", "-", "r", "f", " ", "/", "*">>,
       <<"r", "m", " ", "-", "r", " ", ".", ".">>,
       <<"r", "m", " ", "-", "-", "n", "o", "-", "p", "r", "e", "s",
          "e", "r", "v", "e", "-", "r", "o", "o", "t">>,
       <<"e", "c", "h", "o", " ", "x", " ", ">", " ", "/", "d", "e",
          "v", "/", "s", "d", "a">>,
       <<"d", "d", " ", "i", "f", "=", "x", " ", "o", "f", "=", "/",
          "d", "e", "v", "/", "s", "d", "b">>,
       <<"m", "k", "f", "s", ".", "e", "x", "t", "4", " ", "/", "d",
          "e", "v", "/", "x">>,
       <<":", "{", " ", ":", "|", ":", "&", " ", "}", ";", ":">>,
       <<"c", "h", "m", "o", "d", " ", "-", "R", " ", "0", "0", "0",
          " ", "/">>,
       <<"c", "h", "o", "w", "n", " ", "-", "R", " ", "m", "e", " ",
          "/">>,
       <<"m", "v", " ", "/", " ", "/", "t", "m", "p">>,
       <<"c", "u", "r", "l", " ", "u", " ", "|", " ", "s", "h">>,
       <<"w", "g", "e", "t", " ", "u", " ", "|", "b", "a", "s", "h">>,
       <<"c", "u", "r", "l", " ", "u", " ", "-", "o", " ", "/", "x">>,
       <<"c", "a", "t", " ", "/", "e", "t", "c", "/", "s", "h", "a",
          "d", "o", "w">>,
       <<"c", "a", "t", " ", "~", "/", ".", "s", "s", "h", "/", "i",
          "d", "_", "r", "s", "a">>,
       <<"c", "a", "t", " ", "~", "/", ".", "a", "w", "s", "/", "c",
          "r", "e", "d", "e", "n", "t", "i", "a", "l", "s">>,
       <<"c", "a", "t", " ", ".", "e", "n", "v">>,
       <<"e", "c", "h", "o", " ", ">", " ", "~", "/", ".", "b", "a",
          "s", "h", "_", "h", "i", "s", "t", "o", "r", "y">>,
       <<"r", "m", " ", "~", "/", ".", "b", "a", "s", "h", "_", "h",
          "i", "s", "t", "o", "r", "y">>,
       <<"r", "m", " ", "~", "/", ".", "z", "s", "h", "_", "h", "i",
          "s", "t", "o", "r", "y">>,
       <<"n", "m", "a", "p", " ", "-", "s", "S", " ", "h">>,
       <<"h", "y", "d", "r", "a", " ", "h">>,
       <<"s", "q", "l", "m", "a", "p", " ", "-", "u", " ", "u">>,
       <<"g", "i", "t", " ", "p", "u", "s", "h", " ", "-", "-", "f",
          "o", "r", "c", "e", " ", "o", "r", "i", "g", "i", "n", " ", "m",
          "a", "i", "n">>,
       <<"g", "i", "t", " ", "p", "u", "s", "h", " ", "-", "-", "f",
          "o", "r", "c", "e", " ", "o", "r", "i", "g", "i", "n", " ", "m",
          "a", "s", "t", "e", "r">>,
       <<"g", "i", "t", " ", "r", "e", "s", "e", "t", " ", "-", "-",
          "h", "a", "r", "d", " ", "H", "E", "A", "D", "~", "3">>,
       <<"g", "i", "t", " ", "c", "l", "e", "a", "n", " ", "-", "f",
          "d", "x">>,
       <<"t", "e", "r", "r", "a", "f", "o", "r", "m", " ", "a", "p",
          "p", "l", "y">>,
       <<"t", "e", "r", "r", "a", "f", "o", "r", "m", " ", "d", "e",
          "s", "t", "r", "o", "y">> >>

\* commands at the edges of the patterns
EdgeExamples ==
    << \* upper case
       <<"R", "M", " ", "-", "R", "F", " ", "/">>,
       \* two blocked patterns, the later one first in the command
       <<"t", "e", "r", "r", "a", "f", "o", "r", "m", " ", "a", "p",
          "p", "l", "y", ";", " ", "r", "m", " ", "-", "r", "f", " ",
          "/">>,
       \* two blocked patterns and two warnings
       <<"s", "u", "d", "o", " ", "r", "m", " ", "-", "r", "f", " ",
          "/", " ", "&", "&", " ", "t", "e", "r", "r", "a", "f", "o", "r",
          "m", " ", "d", "e", "s", "t", "r", "o", "y">>,
       \* a trailing newline before the end
       <<"r", "m", " ", "-", "r", "f", " ", "/", "\n">>,
       \* a path under the root
       <<"r", "m", " ", "-", "r", "f", " ", "/", "t", "m", "p">>,
       \* a warning only
       <<"r", "m", " ", "-", "r", "f", " ", "x">>,
       \* two warnings only
       <<"s", "u", "d", "o", " ", "r", "m", " ", "-", "r", "f", " ",
          "x">>,
       \* a warning only
       <<"c", "h", "m", "o", "d", " ", "7", "7", "7", " ", "x">>,
       \* a warning only
       <<"p", "i", "p", " ", "i", "n", "s", "t", "a", "l", "l", " ",
          "x">>,
       \* a warning only
       <<"s", "u", " ", "-", " ", "r", "o", "o", "t">>,
       \* a warning only
       <<"e", "c", "h", "o", " ", "x", " ", ">", " ", "/", "e", "t",
          "c", "/", "h", "o", "s", "t", "s">>,
       \* a warning only
       <<"n", "p", "m", " ", "i", "n", "s", "t", "a", "l", "l", " ",
          "-", "g", " ", "x">>,
       \* a warning only
       <<"b", "r", "e", "w", " ", "i", "n", "s", "t", "a", "l", "l",
          " ", "x">>,
       \* the editable install
       <<"p", "i", "p", " ", "i", "n", "s", "t", "a", "l", "l", " ",
          "-", "e", " ", ".">>,
       \* the fork bomb as it is written
       <<":", "(", ")", "{", " ", ":", "|", ":", "&", " ", "}", ";",
          ":">>,
       \* a name that starts with .env
       <<"c", "a", "t", " ", ".", "e", "n", "v", "r", "c">>,
       \* a newline between the two parts
       <<"c", "a", "t", " ", "x", "\n", "/", "e", "t", "c", "/", "s",
          "h", "a", "d", "o", "w">>,
       \* a push without force
       <<"g", "i", "t", " ", "p", "u", "s", "h", " ", "o", "r", "i",
          "g", "i", "n", " ", "m", "a", "i", "n">>,
       \* a reset without a count
       <<"g", "i", "t", " ", "r", "e", "s", "e", "t", " ", "-", "-",
          "h", "a", "r", "d", " ", "H", "E", "A", "D", "~">>,
       \* harmless
       <<"l", "s">>,
       \* a blank command
       <<" ">> >>

HookWords == {<<"r", "m">>, <<"-", "r", "f">>, <<"/">>,
              <<"s", "u", "d", "o">>, <<"x">>}

RECURSIVE Spaced(_)
\* the words with one space between them
Spaced(ws) ==
    IF ws = <<>> THEN <<>>
    ELSE IF Len(ws) = 1 THEN ws[1]
    ELSE ws[1] \o <<" ">> \o Spaced(Tail(ws))

HookCommands ==
    {BlockedExamples[n] : n \in DOMAIN BlockedExamples}
    \cup {EdgeExamples[n] : n \in DOMAIN EdgeExamples}
    \cup {Spaced(ws) : ws \in SeqsUpTo(HookWords, MaxWords)}

\* the PreToolUse payload of a Bash call
Payload(cmd) == Json(JObj([tool_input |-> JObj([command |-> cmd])]))

\* standard input with a string command
CommandInputs == {Payload(JStr(c)) : c \in HookCommands}

\* standard input of every other shape
ShapeInputs ==
    {NotJson, Json(None), Json(JNum(5)), Json(JStr(<<"s">>)),
     Json(JList(<<JNum(1)>>)), Json(JObj(<<>>)),
     Json(JObj([tool_input |-> None])),
     Json(JObj([tool_input |-> JStr(<<"x">>)])),
     Json(JObj([tool_input |-> JList(<<JNum(1)>>)])),
     Json(JObj([tool_input |-> JObj(<<>>)])),
     Payload(None), Payload(JNum(0)), Payload(JNum(5)),
     Payload(JBool(FALSE)), Payload(JBool(TRUE)), Payload(JList(<<>>)),
     Payload(JList(<<JStr(<<"r", "m", " ", "-", "r", "f", " ", "/">>)>>))}

HookInputs == CommandInputs \cup ShapeInputs

InitHook ==
    /\ pc = "hook"
    /\ stdin \in HookInputs
    /\ input_data = None
    /\ command = None
    /\ reason = <<>>
    /\ warnings = <<>>
    /\ status = <<>>
    /\ content = <<>>
    /\ noise = 0
    /\ lines = <<>>
    /\ idx = 1
    /\ turns = <<>>
    /\ current_turn = NoTurn
    /\ current_content = <<>>
    /\ skip_banner = TRUE
    /\ history = <<InitialState>>
    /\ exit_code = <<>>
    /\ title_asked = FALSE
    /\ file_written = FALSE
    /\ assembled = <<>>
    /\ markdown = <<>>
    /\ x = <<>>
    /\ once = <<>>
    /\ twice = <<>>

\* main: json.load, allowing on JSONDecodeError
HookLoad ==
    /\ pc = "hook"
    /\ IF stdin.json
       THEN /\ input_data' = stdin.value
            /\ pc' = "loaded"
            /\ status' = status
       ELSE /\ input_data' = input_data
            /\ pc' = "hook_exit"
            /\ status' = <<0>>
    /\ UNCHANGED <<stdin, command, reason, warnings, parseVars, mainVars,
                   cleanVars>>

\* main: extract_command, allowing when there is no command
HookExtract ==
    /\ pc = "loaded"
    /\ command' = extract_command(input_data)
    /\ IF Truthy(command')
       THEN pc' = "extracted" /\ status' = status
       ELSE pc' = "hook_exit" /\ status' = <<0>>
    /\ UNCHANGED <<stdin, input_data, reason, warnings, parseVars, mainVars,
                   cleanVars>>

\* main: check_dangerous; re.search raises TypeError on a command that is
\* no string, and the uncaught exception ends the process with status 1
HookCheck ==
    /\ pc = "extracted"
    /\ IF command.t # "str"
       THEN /\ reason' = reason
            /\ status' = <<1>>
            /\ pc' = "hook_exit"
       ELSE LET checked == check_dangerous(command.v)
            IN  IF checked.is_blocked
                THEN /\ reason' = checked.reason
                     /\ status' = <<2>>
                     /\ pc' = "hook_exit"
                ELSE /\ reason' = reason
                     /\ status' = status
                     /\ pc' = "checked"
    /\ UNCHANGED <<stdin, input_data, command, warnings, parseVars, mainVars,
                   cleanVars>>

\* HookWarn with a warning treated as a block
HookWarn_Blocks ==
    /\ pc = "checked"
    /\ warnings' = check_warning(command.v).reason
    /\ status' = IF check_warning(command.v).should_warn THEN <<2>> ELSE <<0>>
    /\ pc' = "hook_exit"
    /\ UNCHANGED <<stdin, input_data, command, reason, parseVars, mainVars,
                   cleanVars>>

\* main: check_warning, whose result is dropped, and the allow
HookWarn ==
    /\ pc = "checked"
    /\ warnings' = check_warning(command.v).reason
    /\ status' = <<0>>
    /\ pc' = "hook_exit"
    /\ UNCHANGED <<stdin, input_data, command, reason, parseVars, mainVars,
                   cleanVars>>

NextHook == HookLoad \/ HookExtract \/ HookCheck \/ HookWarn

SpecHook == InitHook /\ [][NextHook]_vars

----------------------------------------------------------------------------

(* The segmenter's steps, read from the history *)

Consumed == 1..(Len(history) - 1)     \* the lines the loop has processed
Before(k) == history[k]               \* the state when line k arrives
After(k) == history[k + 1]            \* the state when line k is done
Cleaned(k) == clean_line(lines[k])

Parsed == pc \in {"parsed", "exit"}

----------------------------------------------------------------------------
(* C1: every turn parse_export appends to its output has non-empty        *)
(* content.                                                               *)
C1_EmittedContentNonEmpty ==
    \A k \in 1..Len(turns) : turns[k].content # <<>>

----------------------------------------------------------------------------
(* C2: a marker-only line followed by two marker-bearing lines            *)

MarkerOnly(raw) == has_claude_marker(raw) /\ Strip(clean_line(raw)) = <<>>

MarkerBearing(raw) ==
    /\ has_claude_marker(raw)
    /\ ~is_user_prompt(clean_line(raw))
    /\ ~is_timing_line(clean_line(raw))
    /\ ~is_system_response(clean_line(raw))

MarkerRunAt(k) ==
    /\ k \in Consumed /\ k + 2 \in Consumed
    /\ ~Before(k).skip_banner
    /\ MarkerOnly(lines[k])
    /\ MarkerBearing(lines[k + 1])
    /\ MarkerBearing(lines[k + 2])

(* C2 as stated: after the preamble, a marker-only line and two more      *)
(* marker-bearing lines arriving when no assistant turn is current make   *)
(* exactly one assistant turn, and its content has 3 lines.               *)
C2_MarkerRunHasThreeLines ==
    \A k \in Consumed :
        MarkerRunAt(k) /\ Before(k).current_turn # "claude" =>
            /\ After(k + 2).current_turn = "claude"
            /\ After(k + 2).turns = SaveTurn(Before(k))
            /\ Len(After(k + 2).current_content) = 3

(* C2, amended: the three marker lines never split a turn and lose no     *)
(* text, but the marker-only line seeds no content line.  When no         *)
(* assistant turn is current they start exactly one assistant turn whose  *)
(* content is the 2 later lines; when an assistant turn is current all 3  *)
(* cleaned lines are appended to it.                                      *)
C2_MarkerRunMerges ==
    \A k \in Consumed :
        MarkerRunAt(k) =>
            LET b == Before(k)
                a == After(k + 2)
            IN  /\ a.current_turn = "claude"
                /\ IF b.current_turn = "claude"
                   THEN /\ a.turns = b.turns
                        /\ a.current_content =
                               b.current_content
                               \o <<Cleaned(k), Cleaned(k + 1), Cleaned(k + 2)>>
                   ELSE /\ a.turns = SaveTurn(b)
                        /\ a.current_content = <<Cleaned(k + 1), Cleaned(k + 2)>>

\* a marker run that started a turn has been emitted as one turn of 2 lines
C2_Witness ==
    /\ pc = "parsed"
    /\ \E k \in Consumed :
        /\ MarkerRunAt(k)
        /\ k + 2 = Len(lines)
        /\ Before(k).current_turn = "user"
        /\ Before(k).current_content # <<>>
        /\ Cleaned(k + 1) # <<>>
        /\ turns = Append(SaveTurn(Before(k)),
                          [type |-> "claude",
                           content |-> Join(<<Cleaned(k + 1), Cleaned(k + 2)>>)])
        /\ Len(Split(turns[Len(turns)].content)) = 2

----------------------------------------------------------------------------
(* C4: a system command typed while an assistant turn is current          *)

CommandPromptAt(k) ==
    /\ k \in Consumed
    /\ is_user_prompt(Cleaned(k))
    /\ is_system_command(prompt_text_of(Cleaned(k)))
    /\ Before(k).current_turn = "claude"
    /\ Before(k).current_content # <<>>

\* the assistant turn is flushed and nothing else happens
FlushedOnly(k) ==
    /\ After(k).turns =
           Append(Before(k).turns,
                  [type |-> "claude", content |-> Join(Before(k).current_content)])
    /\ After(k).current_turn = NoTurn
    /\ After(k).current_content = <<>>

(* C4 as stated: every user-prompt line whose prompt text is a system     *)
(* command, arriving while an assistant turn with content is current,     *)
(* flushes that turn, emits no user turn and leaves no current turn.      *)
C4_CommandAlwaysFlushes ==
    \A k \in Consumed : CommandPromptAt(k) => FlushedOnly(k)

(* C4, amended: the same, for a command line that is neither a timing     *)
(* line nor a system-response line (those are discarded first and change  *)
(* nothing).                                                              *)
C4_CommandFlushes ==
    \A k \in Consumed :
        /\ CommandPromptAt(k)
        /\ ~is_timing_line(Cleaned(k))
        /\ ~is_system_response(Cleaned(k))
        => FlushedOnly(k)

\* a command line has flushed an assistant turn, and parsing has ended with
\* that turn as the last one
C4_Witness ==
    /\ pc = "parsed"
    /\ \E k \in Consumed :
        /\ CommandPromptAt(k)
        /\ ~is_system_response(Cleaned(k))
        /\ FlushedOnly(k)
        /\ k = Len(lines)
        /\ turns = After(k).turns
        /\ turns[Len(turns)].type = "claude"

----------------------------------------------------------------------------
(* C6: an input of banner and blank lines only                            *)

OnlyNoise ==
    \A k \in 1..Len(Split(content)) :
        LET raw == Split(content)[k]
        IN  /\ is_cli_banner(clean_line(raw)) \/ Strip(clean_line(raw)) = <<>>
            /\ ~has_claude_marker(raw)
            /\ ~is_user_prompt(clean_line(raw))

(* C6: for an input of banner lines and blank lines only, segmentation    *)
(* yields zero turns and main returns 1 without asking for a title and    *)
(* without writing a file.                                                *)
C6_OnlyNoiseIsEmptyResult ==
    OnlyNoise =>
        /\ turns = <<>>
        /\ ~title_asked
        /\ ~file_written
        /\ pc = "exit" => exit_code = <<1>>
        /\ pc # "exit" => exit_code = <<>>

\* main has returned 1 on an input of banner and blank lines
C6_Witness ==
    /\ pc = "exit"
    /\ exit_code = <<1>>
    /\ OnlyNoise
    /\ \E k \in 1..Len(lines) : is_cli_banner(Cleaned(k))
    /\ \E k \in 1..Len(lines) : lines[k] = <<>>

----------------------------------------------------------------------------
(* C3: banner noise prepended to an input                                 *)

\* the input without its prepended noise lines
BareContent ==
    LET ls == Split(content) IN Join(SubSeq(ls, noise + 1, Len(ls)))

IsNoise(raw) ==
    is_cli_banner(clean_line(raw)) \/ Strip(clean_line(raw)) = <<>>

(* C3: with N >= 0 lines of pure banner noise (banner-phrase lines or     *)
(* blank lines) prepended, the emitted turns are those of the input       *)
(* without them: the same number, speakers and contents.                  *)
C3_PreambleNeverLeaks ==
    pc = "parsed" => turns = parse_export(BareContent)

\* turns were emitted from an input behind 2 noise lines, one a banner line
C3_Witness ==
    /\ pc = "parsed"
    /\ noise = 2
    /\ \A k \in 1..noise : IsNoise(Split(content)[k])
    /\ \E k \in 1..noise : is_cli_banner(clean_line(Split(content)[k]))
    /\ Len(turns) >= 2
    /\ parse_export(BareContent) = turns

----------------------------------------------------------------------------
(* The rendered document, line by line *)

DocLines == Split(markdown)
AssembledLines == Split(assembled)

Written == pc = "exit" /\ file_written

IsBlankLine(l) == Strip(l) = <<>>
IsH1(l) == Len(l) >= 2 /\ l[1] = "#" /\ l[2] = SP
IsHeading(l) == IsH1(l) \/ l = <<"#", "#", SP, "Claude">>

Hello == <<"h", "e", "l", "l", "o">>
HiThere == <<"h", "i", SP, "t", "h", "e", "r", "e">>

\* front-matter, # hello, ## Claude, hi there
E2EDocument(ls) ==
    /\ Len(ls) = 13
    /\ ls[1] = <<"-", "-", "-">>
    /\ \E t \in {<<"T">>, <<"U">>, DefaultTitle} :
           ls[2] = <<"title: ", "\"">> \o t \o <<"\"">>
    /\ ls[3] = <<"date: ", TODAY>>
    /\ ls[4] = <<"tags: [claude-code, conversation]">>
    /\ ls[5] = <<"-", "-", "-">>
    /\ SubSeq(ls, 6, 13) =
           << <<>>, <<"#", SP>> \o Hello, <<>>, <<>>,
              <<"#", "#", SP, "Claude">>, <<>>, HiThere, <<>> >>

----------------------------------------------------------------------------
(* C5 as stated: on the input of two banner lines, the prompt line with   *)
(* "hello", the marker line with "hi there" and a trailing newline, the   *)
(* turns are a user turn "hello" and an assistant turn whose content is   *)
(* exactly "hi there", and the document is front-matter, # hello,         *)
(* ## Claude, hi there.                                                   *)
C5_EndToEndAsStated ==
    content = E2EInput /\ Parsed =>
        /\ turns = << [type |-> "user", content |-> Hello],
                      [type |-> "claude", content |-> HiThere] >>
        /\ pc = "exit" => E2EDocument(DocLines)

(* C5, amended: on that input the turns are a user turn "hello" and an    *)
(* assistant turn whose content is " hi there" followed by a newline (the *)
(* deleted glyph leaves its space, the trailing newline leaves an empty   *)
(* last line; the renderer strips both), and the document is              *)
(* front-matter, # hello, ## Claude, hi there.                            *)
C5_EndToEnd ==
    content = E2EInput /\ Parsed =>
        /\ turns = << [type |-> "user", content |-> Hello],
                      [type |-> "claude", content |-> <<SP>> \o HiThere \o <<NL>>] >>
        /\ pc = "exit" => exit_code = <<0>> /\ file_written /\ E2EDocument(DocLines)

\* the document of that input has been written
C5_Witness ==
    /\ content = E2EInput
    /\ Written
    /\ Len(turns) = 2
    /\ E2EDocument(DocLines)

----------------------------------------------------------------------------
(* C7: the line cleaner is idempotent: cleaning a cleaned line changes    *)
(* nothing.                                                               *)
C7_CleanIdempotent ==
    pc = "recleaned" => twice = once

----------------------------------------------------------------------------
(* C8: the H1 heading of a user turn *)

\* the first line of the normalized content, trimmed
FirstLine(turn) == Strip(Split(clean_content(Strip(turn.content)))[1])

ExpectedHeading(turn) ==
    IF Len(FirstLine(turn)) <= 80 THEN FirstLine(turn)
    ELSE SubSeq(FirstLine(turn), 1, 77) \o <<".", ".", ".">>

(* C8: for every rendered user turn the H1 heading text is the first line *)
(* of the turn's normalized content, unchanged when it has at most 80     *)
(* characters and its first 77 characters followed by "..." (exactly 80   *)
(* characters) when it has more; no H1 heading text exceeds 80            *)
(* characters.                                                            *)
C8_HeadingTruncation ==
    Written =>
        LET doc == DocLines
        IN  /\ \A k \in 1..Len(turns) :
                   turns[k].type = "user" /\ Strip(turns[k].content) # <<>> =>
                       \E j \in 1..Len(doc) :
                           /\ doc[j] = <<"#", SP>> \o ExpectedHeading(turns[k])
                           /\ Len(FirstLine(turns[k])) > 80 => Len(doc[j]) - 2 = 80
            /\ \A j \in 1..Len(doc) : IsH1(doc[j]) => Len(doc[j]) - 2 <= 80

\* a prompt of 100 characters has been rendered as a heading of 80
C8_Witness ==
    /\ Written
    /\ \E k \in 1..Len(turns) :
        /\ turns[k].type = "user"
        /\ Len(FirstLine(turns[k])) = 100
        /\ LET doc == DocLines
           IN  \E j \in 1..Len(doc) :
                /\ IsH1(doc[j])
                /\ Len(doc[j]) - 2 = 80
                /\ SubSeq(doc[j], 80, 82) = <<".", ".", ".">>
                /\ SubSeq(doc[j], 3, 79) = SubSeq(FirstLine(turns[k]), 1, 77)

----------------------------------------------------------------------------
(* C9: runs of blank lines in the document *)

\* the lines that are not the third or a later line of a run of blank lines
FirstTwoOfRun(ls) ==
    {i \in 1..Len(ls) :
        \/ ~IsBlankLine(ls[i])
        \/ i <= 2
        \/ ~IsBlankLine(ls[i - 1])
        \/ ~IsBlankLine(ls[i - 2])}

(* C9: the document never holds 3 or more consecutive blank lines: it is  *)
(* the assembled document with every run of 3 or more blank lines cut to  *)
(* exactly 2 at its place, the runs of 1 or 2 blank lines and all         *)
(* non-blank lines kept in order.                                         *)
C9_BlankRunsCollapsed ==
    Written =>
        LET doc == DocLines
            asm == AssembledLines
        IN  /\ \A i \in 1..Len(doc) :
                   i + 2 <= Len(doc) =>
                       ~(/\ IsBlankLine(doc[i])
                         /\ IsBlankLine(doc[i + 1])
                         /\ IsBlankLine(doc[i + 2]))
            /\ doc = Pick(asm, FirstTwoOfRun(asm))

\* four blank lines between two lines of a reply have become two
C9_Witness ==
    /\ Written
    /\ LET doc == DocLines
           asm == AssembledLines
       IN  \E i \in 1..Len(asm) :
            /\ i + 5 <= Len(asm)
            /\ ~IsBlankLine(asm[i]) /\ ~IsHeading(asm[i])
            /\ \A d \in 1..4 : IsBlankLine(asm[i + d])
            /\ ~IsBlankLine(asm[i + 5])
            /\ LET p == Cardinality(FirstTwoOfRun(asm) \cap (1..i))
               IN  /\ doc[p] = asm[i]
                   /\ doc[p + 1] = <<>>
                   /\ doc[p + 2] = <<>>
                   /\ doc[p + 3] = asm[i + 5]

----------------------------------------------------------------------------
(* C10: a turn whose normalized content is empty *)

NormalizedEmpty(turn) == clean_content(Strip(turn.content)) = <<>>

(* C10: the renderer emits no heading and no body for a turn whose        *)
(* normalized content (after separator removal and dedent) is empty:      *)
(* such a turn renders nothing, and the document has one heading for      *)
(* each turn with non-empty normalized content.                           *)
C10_EmptyNormalizedRendersNothing ==
    Written =>
        /\ \A k \in 1..Len(turns) :
               NormalizedEmpty(turns[k]) => RenderTurn(turns[k]) = <<>>
        /\ LET doc == DocLines
           IN  Cardinality({j \in 1..Len(doc) : IsHeading(doc[j])})
               = Cardinality({k \in 1..Len(turns) : ~NormalizedEmpty(turns[k])})

----------------------------------------------------------------------------
(* C11: the uniform dedent of a rendered turn *)

\* content = clean_content(turn['content'].strip()): what the renderer renders
Normalized(turn) == clean_content(Strip(turn.content))

HasSeparator(turn) ==
    \E i \in 1..Len(Split(turn.content)) :
        is_separator(Strip(Split(turn.content)[i]))

\* the lines of the turn as segmented, each without the turn's common indent
DedentedAsSegmented(turn) ==
    LET ls == Split(turn.content)
        width == min_indent_of(ls)
    IN  Join([i \in 1..Len(ls) |-> Dedent(ls[i], width)])

(* C11: for each rendered turn (here: without separator lines) the dedent *)
(* width is the least indent over all non-blank lines of the turn as      *)
(* segmented, its first line included, and the rendered content is the    *)
(* turn's lines each without that many leading characters (lines shorter  *)
(* than the width as they are), apart from the white space trimmed at     *)
(* both ends of the turn.                                                 *)
C11_UniformDedent ==
    Written =>
        \A k \in 1..Len(turns) :
            ~SkipsTurn(turns[k]) /\ ~HasSeparator(turns[k]) =>
                Strip(Normalized(turns[k])) = Strip(DedentedAsSegmented(turns[k]))

----------------------------------------------------------------------------
(* C13: timing lines and system-response lines *)

Discarded(k) ==
    is_timing_line(Cleaned(k)) \/ is_system_response(Cleaned(k))

(* C13: once the preamble has ended, a timing line or a system-response   *)
(* line leaves the segmenter as it was, whatever its state: the current   *)
(* speaker, the current turn's lines and the emitted turns are the same   *)
(* before and after the line, also when the line is a user prompt or      *)
(* bears the assistant marker.                                            *)
C13_DiscardChangesNothing ==
    \A k \in Consumed :
        ~Before(k).skip_banner /\ Discarded(k) => After(k) = Before(k)

\* a timing line behind the assistant marker and a system-response line
\* behind a prompt glyph have both arrived in a user turn, and nothing has
\* changed
C13_Witness ==
    /\ pc = "parsed"
    /\ \E k \in Consumed :
        /\ Before(k).current_turn = "user" /\ Before(k).current_content # <<>>
        /\ is_timing_line(Cleaned(k)) /\ has_claude_marker(lines[k])
        /\ After(k) = Before(k)
    /\ \E k \in Consumed :
        /\ ~Before(k).skip_banner
        /\ Before(k).current_turn = "user"
        /\ is_system_response(Cleaned(k)) /\ is_user_prompt(Cleaned(k))
        /\ After(k) = Before(k)

----------------------------------------------------------------------------
(* C14: the preamble skip *)

\* the line that ends the preamble: a prompt, not a banner line, not blank
EndsPreamble(k) ==
    /\ is_user_prompt(Cleaned(k))
    /\ ~is_cli_banner(Cleaned(k))
    /\ Strip(Cleaned(k)) # <<>>

\* rules 2-7 applied to a prompt line arriving with nothing emitted and no
\* current turn
FirstPromptOutcome(k) ==
    LET text == prompt_text_of(Cleaned(k))
    IN  IF Discarded(k) \/ is_system_command(text)
        THEN [InitialState EXCEPT !.skip_banner = FALSE]
        ELSE [turns |-> <<>>, current_turn |-> "user",
              current_content |-> IF text # <<>> THEN <<text>> ELSE <<>>,
              skip_banner |-> FALSE]

(* C14: the segmenter starts skipping the preamble; while it skips, a     *)
(* line that is not a prompt, or is a banner line or blank, is discarded  *)
(* and the state stays as it was (also a prompt holding a banner phrase   *)
(* and a marker-bearing line), and the first line that is a prompt and    *)
(* neither a banner line nor blank ends the skip and is processed by      *)
(* rules 2-7 in the same step; the skip is never entered again.           *)
C14_PreambleSkip ==
    /\ history[1] = InitialState /\ InitialState.skip_banner
    /\ \A k \in Consumed :
        /\ Before(k).skip_banner /\ ~EndsPreamble(k) => After(k) = Before(k)
        /\ Before(k).skip_banner /\ EndsPreamble(k) =>
               After(k) = FirstPromptOutcome(k)
        /\ ~Before(k).skip_banner => ~After(k).skip_banner

\* a prompt holding a banner phrase and a marker-bearing line were skipped,
\* then a prompt ended the preamble and started the only turn
C14_Witness ==
    /\ pc = "parsed"
    /\ Len(lines) = 3
    /\ is_user_prompt(Cleaned(1)) /\ is_cli_banner(Cleaned(1))
    /\ has_claude_marker(lines[2]) /\ Strip(Cleaned(2)) # <<>>
    /\ After(2) = InitialState
    /\ EndsPreamble(3)
    /\ ~After(3).skip_banner
    /\ Len(turns) = 1 /\ turns[1].type = "user"

----------------------------------------------------------------------------
(* C15: lines arriving when no turn is current *)

Idle(st) == ~st.skip_banner /\ st.current_turn = NoTurn

\* the guards of rules 1-7 and of the drop of a blank line, as the rules word
\* them
Rule1(k) == Before(k).skip_banner /\ ~EndsPreamble(k)
Rule2(k) == Discarded(k)
Rule3(k) == is_user_prompt(Cleaned(k))
Rule4(k) == has_claude_marker(lines[k]) /\ Before(k).current_turn # "claude"
Rule5(k) == has_claude_marker(lines[k]) /\ Before(k).current_turn = "claude"
Rule6(k) == Before(k).current_turn \in {"user", "claude"}
Rule7(k) == Before(k).current_turn = NoTurn /\ Strip(Cleaned(k)) # <<>>
BlankDrop(k) == Before(k).current_turn = NoTurn /\ Strip(Cleaned(k)) = <<>>

(* C15: when no turn is current after the preamble, a blank line without  *)
(* a marker changes nothing, and a non-blank line that is not a prompt,   *)
(* timing or system-response line starts an assistant turn seeded with    *)
(* that line and emits nothing; every line falls under one of rules 1-7   *)
(* or the drop of a blank line, and the current speaker is always none,   *)
(* user or assistant.                                                     *)
C15_IdleLines ==
    /\ current_turn \in {NoTurn, "user", "claude"}
    /\ \A k \in Consumed :
        /\ Idle(Before(k)) =>
            /\ Before(k).current_content = <<>>
            /\ Strip(Cleaned(k)) = <<>> /\ ~has_claude_marker(lines[k]) =>
                   After(k) = Before(k)
            /\ Strip(Cleaned(k)) # <<>> /\ ~Rule2(k) /\ ~Rule3(k) =>
                   After(k) = [Before(k) EXCEPT
                                  !.current_turn = "claude",
                                  !.current_content = <<Cleaned(k)>>]
        /\ \/ Rule1(k) \/ Rule2(k) \/ Rule3(k) \/ Rule4(k)
           \/ Rule5(k) \/ Rule6(k) \/ Rule7(k) \/ BlankDrop(k)

\* after a discarded system command a blank line was dropped, then a line
\* without marker started the assistant turn that was emitted
C15_Witness ==
    /\ pc = "parsed"
    /\ Len(lines) = 3
    /\ is_system_command(prompt_text_of(Cleaned(1)))
    /\ Idle(Before(2)) /\ lines[2] = <<>> /\ After(2) = Before(2)
    /\ Idle(Before(3)) /\ ~has_claude_marker(lines[3])
    /\ After(3).current_turn = "claude"
    /\ turns = << [type |-> "claude", content |-> Cleaned(3)] >>

----------------------------------------------------------------------------
(* C16: the bare prompt *)

\* line k is a prompt line that reaches the prompt rule
PromptAt(k) ==
    /\ k \in Consumed
    /\ ~Rule1(k) /\ ~Rule2(k) /\ Rule3(k)

BarePromptAt(k) == PromptAt(k) /\ prompt_text_of(Cleaned(k)) = <<>>

\* line k is a turn-start signal: a user prompt, a system command or an
\* assistant marker outside an assistant turn
TurnStartAt(k) ==
    /\ k \in Consumed
    /\ ~Rule1(k) /\ ~Rule2(k)
    /\ Rule3(k) \/ Rule4(k)

\* a user turn that has no line yet
EmptyUserTurn(st) == st.current_turn = "user" /\ st.current_content = <<>>

(* C16: a bare prompt line starts a user turn with no content line, after *)
(* flushing the previous turn if that had content; a user turn without    *)
(* content lines comes from a bare prompt only, and when the next         *)
(* turn-start signal or the end of the input arrives before a line was    *)
(* appended to it, no turn is emitted for it.                             *)
C16_BarePromptEmitsNothing ==
    /\ \A k \in Consumed :
        /\ BarePromptAt(k) =>
            /\ EmptyUserTurn(After(k))
            /\ IF Before(k).current_turn # NoTurn
                  /\ Before(k).current_content # <<>>
               THEN After(k).turns =
                        Append(Before(k).turns,
                               [type |-> Before(k).current_turn,
                                content |-> Join(Before(k).current_content)])
               ELSE After(k).turns = Before(k).turns
        /\ EmptyUserTurn(After(k)) /\ ~EmptyUserTurn(Before(k)) => BarePromptAt(k)
        /\ EmptyUserTurn(Before(k)) /\ TurnStartAt(k) =>
               After(k).turns = Before(k).turns
    /\ Parsed /\ EmptyUserTurn(After(Len(lines))) =>
           turns = After(Len(lines)).turns

\* a bare prompt flushed the assistant turn before it, the next prompt
\* arrived at once, and the emitted turns hold no turn for the bare prompt
C16_Witness ==
    /\ pc = "parsed"
    /\ \E k \in Consumed :
        /\ BarePromptAt(k)
        /\ Before(k).current_turn = "claude" /\ Before(k).current_content # <<>>
        /\ Len(After(k).turns) = Len(Before(k).turns) + 1
        /\ k + 1 = Len(lines)
        /\ PromptAt(k + 1) /\ prompt_text_of(Cleaned(k + 1)) # <<>>
        /\ After(k + 1).turns = After(k).turns
        /\ turns = Append(After(k).turns,
                          [type |-> "user",
                           content |-> prompt_text_of(Cleaned(k + 1))])

----------------------------------------------------------------------------
(* C17: a marker-bearing line outside an assistant turn *)

\* line k bears the marker in its raw form and reaches the marker rule with
\* no turn or a user turn current
MarkerStartAt(k) ==
    /\ k \in Consumed
    /\ ~Before(k).skip_banner
    /\ has_claude_marker(lines[k])
    /\ ~Rule2(k) /\ ~Rule3(k)
    /\ Before(k).current_turn \in {NoTurn, "user"}

\* the turns after the current turn of st, if it has content, was flushed
Flushed(st) ==
    IF st.current_turn # NoTurn /\ st.current_content # <<>>
    THEN Append(st.turns, [type |-> st.current_turn,
                           content |-> Join(st.current_content)])
    ELSE st.turns

(* C17: a marker-bearing line that is not a prompt, timing or             *)
(* system-response line and arrives when no turn or a user turn is        *)
(* current flushes the current turn (if it has content) and starts a new  *)
(* assistant turn, seeded with the cleaned line if that is not blank; no  *)
(* line whose raw form bears the marker is ever appended to a user turn,  *)
(* so a user turn and the marked reply after it are never one turn.       *)
C17_MarkerStartsReply ==
    \A k \in Consumed :
        /\ MarkerStartAt(k) =>
            /\ After(k).current_turn = "claude"
            /\ After(k).turns = Flushed(Before(k))
            /\ After(k).current_content =
                   IF Strip(Cleaned(k)) # <<>> THEN <<Cleaned(k)>> ELSE <<>>
        /\ has_claude_marker(lines[k]) /\ After(k).current_turn = "user" =>
               After(k) = Before(k) \/ PromptAt(k)

\* a marker-bearing line arrived in a user turn, and the user turn and the
\* reply were emitted as two turns
C17_Witness ==
    /\ pc = "parsed"
    /\ Len(lines) = 2
    /\ MarkerStartAt(2)
    /\ Before(2).current_turn = "user"
    /\ turns = << [type |-> "user", content |-> prompt_text_of(Cleaned(1))],
                  [type |-> "claude", content |-> Cleaned(2)] >>
    /\ Cleaned(2) # <<>>

----------------------------------------------------------------------------
(* C18: separator lines *)

\* the lines the renderer passes to the normalizer, without the separator
\* lines, each dedented
WithoutSeparators(turn) ==
    LET ls == Split(Strip(turn.content))
        kept == Pick(ls, {i \in 1..Len(ls) : ~is_separator(Strip(ls[i]))})
        width == min_indent_of(ls)
    IN  Join([i \in 1..Len(kept) |-> Dedent(kept[i], width)])

(* C18: the normalized content of a rendered turn is exactly its line     *)
(* sequence with the separator lines (3 or more dash/equals characters)   *)
(* deleted, then dedented: every other line, blank or not, is kept in     *)
(* order, also a blank line directly after a header-underline separator.  *)
C18_OnlySeparatorsRemoved ==
    Written =>
        \A k \in 1..Len(turns) :
            ~SkipsTurn(turns[k]) =>
                Normalized(turns[k]) = WithoutSeparators(turns[k])

----------------------------------------------------------------------------
(* C19: the emitted turns partition the kept lines *)

IsPrefix(s, t) == Len(s) <= Len(t) /\ SubSeq(t, 1, Len(s)) = s

NonBlankLines(ls) == SelectSeq(ls, LAMBDA l : Strip(l) # <<>>)

\* line k is kept: after the preamble, not blank, not a timing line, not a
\* system-response line, not a system-command prompt
Kept(k) ==
    /\ ~Rule1(k) /\ ~Rule2(k)
    /\ Strip(Cleaned(k)) # <<>>
    /\ ~(is_user_prompt(Cleaned(k))
         /\ is_system_command(prompt_text_of(Cleaned(k))))

\* the text line k contributes: the prompt text of a prompt line, the cleaned
\* line otherwise
TextOf(k) ==
    IF is_user_prompt(Cleaned(k)) THEN prompt_text_of(Cleaned(k))
    ELSE Cleaned(k)

\* the texts of the kept lines among the first n lines, in input order
KeptTexts(n) ==
    NonBlankLines([k \in 1..n |-> IF Kept(k) THEN TextOf(k) ELSE <<>>])

\* the lines of the given turns, turn after turn
LinesOf(ts) == Concat([i \in 1..Len(ts) |-> Split(ts[i].content)])

(* C19: at every point of the segmentation the non-blank lines of the     *)
(* emitted turns followed by those of the current turn are exactly the    *)
(* texts of the kept lines consumed so far, each once and in input order  *)
(* (the prompt text for a prompt line), so that in the end every kept     *)
(* line is in exactly one emitted turn; and the turns emitted before a    *)
(* step are an unchanged prefix of the turns after it.                    *)
C19_TurnsPartitionKeptLines ==
    /\ pc = "loop" =>
           NonBlankLines(LinesOf(turns) \o current_content)
               = KeptTexts(Len(history) - 1)
    /\ Parsed =>
        /\ NonBlankLines(LinesOf(turns)) = KeptTexts(Len(lines))
        /\ IsPrefix(After(Len(lines)).turns, turns)
    /\ \A k \in Consumed : IsPrefix(Before(k).turns, After(k).turns)

\* two turns, one of two lines, were emitted from three kept lines and a
\* discarded command
C19_Witness ==
    /\ pc = "parsed"
    /\ Len(turns) = 2
    /\ Len(KeptTexts(Len(lines))) = 3
    /\ \E k \in Consumed :
        /\ ~Rule1(k)
        /\ is_user_prompt(Cleaned(k))
        /\ is_system_command(prompt_text_of(Cleaned(k)))
    /\ NonBlankLines(LinesOf(turns)) = KeptTexts(Len(lines))
    /\ \E i \in 1..2 : Len(Split(turns[i].content)) = 2

----------------------------------------------------------------------------
(* C20: segmentation terminates *)

\* a step of the loop consumes exactly the next line
ConsumesNextLine ==
    pc = "loop" /\ pc' = "loop" =>
        /\ idx <= Len(lines)
        /\ idx' = idx + 1
        /\ lines' = lines
        /\ history' = Append(history, Segmenter')

\* the loop is left after the last line only, with the final flush
LeavesAfterLastLine ==
    pc = "loop" /\ pc' # "loop" =>
        /\ pc' = "parsed"
        /\ idx = Len(lines) + 1
        /\ turns' = Flushed(Segmenter)

\* the returned turns are not changed and the loop is not entered again
ReturnsOnce ==
    pc \in {"parsed", "exit"} => pc' = "exit" /\ turns' = turns

(* C20: on every input the segmentation ends; each step of the loop       *)
(* consumes exactly the next line (also the step in which a prompt ends   *)
(* the preamble and is processed by the rules below), the loop is left    *)
(* only after the last line, with one final flush of the current turn,    *)
(* and the turns returned are not changed afterwards.                     *)
C20_SegmentationTerminates ==
    /\ <>(pc = "parsed")
    /\ [](pc = "loop" => idx \in 1..(Len(lines) + 1) /\ Len(history) = idx)
    /\ [][ConsumesNextLine]_vars
    /\ [][LeavesAfterLastLine]_vars
    /\ [][ReturnsOnce]_vars

\* a three-line input was consumed line by line, its second line a prompt
\* that ended the preamble and started a turn in the same step, and the final
\* flush emitted the turns
C20_Witness ==
    /\ pc = "parsed"
    /\ Len(lines) = 3 /\ idx = 4 /\ Len(history) = 4
    /\ Before(2).skip_banner /\ EndsPreamble(2)
    /\ After(2).current_turn = "user" /\ After(2).current_content # <<>>
    /\ turns = Flushed(After(3))
    /\ Len(turns) = Len(After(3).turns) + 1

----------------------------------------------------------------------------
(* C12: the gate's verdict on a string command *)

\* the command that standard input carries, when it carries a string command
GivenCommand == stdin.value.v.tool_input.v.command.v

\* the blocked patterns and the warning patterns the given command matches
BlockedHits ==
    {n \in DOMAIN BLOCKED_PATTERNS :
         Search(BLOCKED_PATTERNS[n].re, GivenCommand)}
WarningHits ==
    {n \in DOMAIN WARNING_PATTERNS :
         Search(WARNING_PATTERNS[n].re, GivenCommand)}

\* C12: when the hook has ended on an input whose command is a string, its
\* status is 2 exactly when the command matches at least one blocked pattern,
\* and then the reason names the matching pattern that comes first in
\* BLOCKED_PATTERNS; the status is 0 otherwise, with no reason, however many
\* warning patterns the command matches. No status is set before the end.
C12_BlocksOnFirstMatch ==
    /\ pc # "hook_exit" => status = <<>>
    /\ pc = "hook_exit" /\ stdin \in CommandInputs =>
           /\ status = <<2>> <=> BlockedHits # {}
           /\ status = <<0>> <=> BlockedHits = {}
           /\ BlockedHits # {} =>
                  reason = <<BlockedPrefix,
                             BLOCKED_PATTERNS[Min(BlockedHits)].src>>
           /\ BlockedHits = {} => reason = <<>>
           /\ BlockedHits = {} /\ WarningHits # {} => status = <<0>>

\* a command that matches two blocked patterns, the later one of the list
\* earlier in the command, and a warning pattern: blocked, the first named
C12_Witness ==
    /\ pc = "hook_exit"
    /\ stdin \in CommandInputs
    /\ BlockedHits = {1, 29}
    /\ WarningHits # {}
    /\ Search(Then(<<BLOCKED_PATTERNS[29].re, Many(AnyChar),
                     BLOCKED_PATTERNS[1].re>>), GivenCommand)
    /\ status = <<2>>
    /\ reason = <<BlockedPrefix, BLOCKED_PATTERNS[1].src>>

----------------------------------------------------------------------------
(* C21: the gate's outcomes over every input *)

\* standard input holds JSON from which a command that is a non-empty string
\* can be read: an object whose tool_input is an object whose command is one
HasStringCommand ==
    /\ stdin.json
    /\ stdin.value.t = "obj"
    /\ "tool_input" \in DOMAIN stdin.value.v
    /\ stdin.value.v.tool_input.t = "obj"
    /\ "command" \in DOMAIN stdin.value.v.tool_input.v
    /\ stdin.value.v.tool_input.v.command.t = "str"
    /\ stdin.value.v.tool_input.v.command.v # <<>>

\* C21: when the hook has ended, its status is 0 or 2, whatever the input;
\* and it is 0 when standard input is not JSON or holds no command that is a
\* non-empty string (input not an object, tool_input missing or not an
\* object, command missing, empty or not a string).
C21_FailsOpen ==
    pc = "hook_exit" =>
        /\ status \in {<<0>>, <<2>>}
        /\ ~HasStringCommand => status = <<0>>

====
